---- MODULE Spec2Model ----
(***************************************************************************)
(* Layout fitting and booklet imposition of the bulletin maker.            *)
(*                                                                         *)
(*   _auto_adjust_bulletin  (renderer/html_renderer.py)  -> Spec           *)
(*   impose_booklet         (renderer/pdf_engine.py)     -> SpecImpose     *)
(*                                                                         *)
(* Scales are kept as integer percentages (1.0 = 100, 0.97 = 97).  A       *)
(* markup document is a sequence of tokens; the token "</style>" is the    *)
(* style-block terminator that _inject_css looks for.                      *)
(***************************************************************************)
EXTENDS Integers, Sequences, FiniteSets, TLC

\* ---------------------------------------------------------------- bounds
\* Largest page count a render can measure.
MaxPages == 14
\* Largest page count of the sequential document handed to impose_booklet.
MaxN == 24

\* --------------------------------------------------------------- values
\* count_pages' failure result (Python None).
None == -1
\* Scale 1.0, the default of AdjustProfile.scale and render_to_pdf(scale=).
DefaultScale == 100
\* Value of a local variable that has not been assigned yet.
Unset == -2

\* Page counts a rendered file can measure: the renderer prints at least
\* one page, so a measured count is never 0.
PageCounts == 1..MaxPages
Measurements == PageCounts \cup {None}

\* Markup documents given to _auto_adjust_bulletin: the rendered bulletin
\* template, one style block followed by the body.
Docs == { <<"<style>", "base-css", "</style>", "<body>">> }

VARIABLES
  pc,              \* position in _auto_adjust_bulletin
  html_string,     \* the markup argument
  has_sink,        \* on_progress is not None
  seq_path,        \* what the destination file holds: [html, scale]
  pages,           \* count_pages of the baseline render
  n,               \* count_pages of the latest tier render
  best_html, best_scale, best_blanks, baseline_pages, adjusted, direction,
  idx,             \* 1-based position of the running for loop in its ladder
  events,          \* every report and render of the run, in order
  ipc,             \* position in impose_booklet
  in_pages,        \* len(reader.pages) of the input file
  padded,          \* n padded to a multiple of 4
  i,               \* loop variable of range(0, num_sheets, 2)
  writer,          \* pages added to the PdfWriter, in order
  output_pdf,      \* what the output file holds (<<>> when absent)
  in_state,        \* condition of the input file: "ok", "unreadable", "bad_page"
  reads,           \* number of times the input file was opened
  spc,             \* position in render_with_shrink
  sh_html,         \* its html_string argument
  output_path,     \* its output_path, as given and then with the .pdf suffix
  max_pages,       \* its max_pages argument
  sh_pages,        \* its local `pages`
  sh_idx,          \* 1-based position of `for scale in AUTO_SHRINK_SCALES`
  files,           \* the files render_with_shrink has left on disk
  result,          \* its local `result`, the path returned
  sh_log,          \* the scales it rendered at, in order
  counted,         \* the latest count_pages call: what the file was, what came back
  gpc,             \* position in BulletinAPI.generate_all
  form,            \* its form_data and the state of self._day
  selected,        \* its local `selected`
  results, errors, \* its two dicts, as functions from document key to text
  creed_page,      \* its local `creed_page`
  calls,           \* the generate_* calls it made: [doc, creed_page_num, outcome]
  response,        \* the dict it returned
  rpc,             \* position in SundaysClient._request
  attempt,         \* `for attempt in range(2)`
  _logged_in,      \* SundaysClient._logged_in
  sent,            \* what each self.client.request call met, in order
  exc              \* the exception _request raised ("none" when it has not)

autofitVars == <<pc, html_string, has_sink, seq_path, pages, n, best_html,
                 best_scale, best_blanks, baseline_pages, adjusted, direction,
                 idx, events>>
imposeVars == <<ipc, in_pages, padded, i, writer, output_pdf, in_state, reads>>
shrinkVars == <<spc, sh_html, output_path, max_pages, sh_pages, sh_idx, files,
                result, sh_log>>
apiVars == <<gpc, form, selected, results, errors, creed_page, calls, response>>
clientVars == <<rpc, attempt, _logged_in, sent, exc>>
appVars == <<apiVars, clientVars>>
vars == <<pc, html_string, has_sink, seq_path, pages, n, best_html,
          best_scale, best_blanks, baseline_pages, adjusted, direction,
          idx, events, ipc, in_pages, padded, i, writer, output_pdf,
          in_state, reads, spc, sh_html, output_path, max_pages, sh_pages,
          sh_idx, files, result, sh_log, counted, gpc, form, selected,
          results, errors, creed_page, calls, response, rpc, attempt,
          _logged_in, sent, exc>>

\* ------------------------------------------------------------- profiles
AdjustProfile(name, css, scale) == [name |-> name, css |-> css, scale |-> scale]

\* Variant: a seventh tighten tier has been added to the ladder.
BULLETIN_TIGHTEN_PROFILES_seven ==
  << AdjustProfile("T1", "css-T1", DefaultScale),
     AdjustProfile("T2", "css-T2", DefaultScale),
     AdjustProfile("T3", "css-T3", DefaultScale),
     AdjustProfile("T4", "css-T4", DefaultScale),
     AdjustProfile("T5", "css-T5", 97),
     AdjustProfile("T6", "css-T6", 95),
     AdjustProfile("T7", "css-T7", 93) >>

BULLETIN_TIGHTEN_PROFILES ==
  << AdjustProfile("T1", "css-T1", DefaultScale),
     AdjustProfile("T2", "css-T2", DefaultScale),
     AdjustProfile("T3", "css-T3", DefaultScale),
     AdjustProfile("T4", "css-T4", DefaultScale),
     AdjustProfile("T5", "css-T5", 97),
     AdjustProfile("T6", "css-T6", 95) >>

\* Variant: the loosen ladder starts scaling one tier early.
BULLETIN_LOOSEN_PROFILES_early_scale ==
  << AdjustProfile("L1", "css-L1", DefaultScale),
     AdjustProfile("L2", "css-L2", DefaultScale),
     AdjustProfile("L3", "css-L3", DefaultScale),
     AdjustProfile("L4", "css-L4", 102),
     AdjustProfile("L5", "css-L5", 103),
     AdjustProfile("L6", "css-L6", 105) >>

BULLETIN_LOOSEN_PROFILES ==
  << AdjustProfile("L1", "css-L1", DefaultScale),
     AdjustProfile("L2", "css-L2", DefaultScale),
     AdjustProfile("L3", "css-L3", DefaultScale),
     AdjustProfile("L4", "css-L4", DefaultScale),
     AdjustProfile("L5", "css-L5", 103),
     AdjustProfile("L6", "css-L6", 105) >>

\* ------------------------------------------------------- pure functions
\* Variant: the terminator is replaced by the overrides and not put back.
RECURSIVE _inject_css_unterminated(_, _)
_inject_css_unterminated(html, extra_css) ==
  IF html = <<>> THEN <<>>
  ELSE IF Head(html) = "</style>"
       THEN <<"/* auto-adjust */", extra_css>> \o _inject_css_unterminated(Tail(html), extra_css)
       ELSE <<Head(html)>> \o _inject_css_unterminated(Tail(html), extra_css)

\* str.replace("</style>", "\n/* auto-adjust */\n" + extra_css + "\n</style>"):
\* every terminator is replaced.
RECURSIVE _inject_css(_, _)
_inject_css(html, extra_css) ==
  IF html = <<>> THEN <<>>
  ELSE IF Head(html) = "</style>"
       THEN <<"/* auto-adjust */", extra_css, "</style>">> \o _inject_css(Tail(html), extra_css)
       ELSE <<Head(html)>> \o _inject_css(Tail(html), extra_css)

\* Variant: the pages over the last multiple of 4 are counted instead.
_booklet_blanks_remainder(k) == k % 4

\* (4 - pages % 4) % 4
_booklet_blanks(k) == (4 - (k % 4)) % 4

\* Variant: a tie goes to loosen.
_best_direction_flipped(p) ==
  LET blanks == _booklet_blanks(p)
      pages_to_remove == p % 4
      pages_to_add == blanks
  IN IF blanks = 0 THEN "tighten"
     ELSE IF pages_to_add <= pages_to_remove THEN "loosen"
     ELSE "tighten"

_best_direction(p) ==
  LET blanks == _booklet_blanks(p)
      pages_to_remove == p % 4
      pages_to_add == blanks
  IN IF blanks = 0 THEN "tighten"
     ELSE IF pages_to_add < pages_to_remove THEN "loosen"
     ELSE "tighten"

\* Variant: only 0 is skipped, None is taken for a count.
Falsy_zero_only(x) == x = 0

\* Python truthiness of an int-or-None: `not x`.
Falsy(x) == x = None \/ x = 0


\* ------------------------------------------------------------ event log
\* _report: the sink is called only when one was supplied.
_report(log, what, dir) ==
  IF has_sink
  THEN Append(log, [kind |-> "report", what |-> what, dir |-> dir,
                    html |-> <<>>, scale |-> 0])
  ELSE log

\* render_to_pdf(html, seq_path, ..., scale=scale) as seen from outside:
\* the call is logged and the destination file is overwritten.
render_to_pdf(log, what, html, scale) ==
  Append(log, [kind |-> "render", what |-> what, dir |-> "",
               html |-> html, scale |-> scale])

File(html, scale) == [html |-> html, scale |-> scale]
NoFile == File(<<>>, 0)

\* ----------------------------------------------- _auto_adjust_bulletin
\* Ladder selection.
primary(dir) ==
  IF dir = "tighten" THEN BULLETIN_TIGHTEN_PROFILES ELSE BULLETIN_LOOSEN_PROFILES
secondary(dir) ==
  IF dir = "tighten" THEN BULLETIN_LOOSEN_PROFILES ELSE BULLETIN_TIGHTEN_PROFILES
\* Variant: the secondary search is reported under the primary direction.
secondary_dir_same(dir) == dir

\* `secondary_dir = "loosen" if direction == "tighten" else "tighten"`
secondary_dir(dir) == IF dir = "tighten" THEN "loosen" ELSE "tighten"

\* Variant: only an unmeasurable baseline returns early.
BaselineFits_unmeasured_only(p) == Falsy(p)

\* `if not pages or pages % 4 == 0: return`
BaselineFits(p) == Falsy(p) \/ p % 4 = 0

\* Variant: the latest differing result replaces the best.
Improves_latest(blanks, best) == blanks # best

\* `if blanks < best_blanks:` of a measurable tier.
Improves(blanks, best) == blanks < best

\* Variant: the loops never break on a perfect fit.
PerfectFit_never(best) == FALSE

\* `if best_blanks == 0: break`
PerfectFit(best) == best = 0

\* Variant: the loosen branch of the overshoot detection is missing.
Overshoot_tighten_only(dir, m, base) ==
  /\ dir = "tighten" /\ m < base /\ m % 4 # 0
  /\ m < base - (base % 4)

\* Overshoot detection of the primary loop.
Overshoot(dir, m, base) ==
  IF dir = "tighten" /\ m < base /\ m % 4 # 0
  THEN LET lower == base - (base % 4) IN m < lower
  ELSE IF dir = "loosen" /\ m > base /\ m % 4 # 0
       THEN LET upper == base + _booklet_blanks(base) IN m > upper
       ELSE FALSE

\* Variant: the secondary loop always runs.
TrySecondary_always(best) == TRUE

\* `if best_blanks > 0:` guarding the secondary loop.
TrySecondary(best) == best > 0

\* Variant: the final re-render is never made.
NeedsFinalRender_never(adj) == FALSE

\* `if adjusted:` guarding the final re-render.
NeedsFinalRender(adj) == adj

BaselineWith(m) ==
  /\ pc = "start"
  /\   LET log1 == render_to_pdf(_report(events, "Rendering baseline layout...", ""),
                                 "baseline", html_string, DefaultScale)
       IN /\ seq_path' = File(html_string, DefaultScale)
          /\ pages' = m
          /\ IF BaselineFits(m)
             THEN /\ events' = _report(log1, "Layout fits perfectly", "")
                  /\ pc' = "done"
                  /\ UNCHANGED <<best_html, best_scale, best_blanks,
                                 baseline_pages, adjusted, direction, idx>>
             ELSE /\ events' = _report(log1, "Baseline: adjusting...", "")
                  /\ best_html' = html_string
                  /\ best_scale' = DefaultScale
                  /\ best_blanks' = _booklet_blanks(m)
                  /\ baseline_pages' = m
                  /\ adjusted' = FALSE
                  /\ direction' = _best_direction(m)
                  /\ idx' = 1
                  /\ pc' = "primary"
  /\ UNCHANGED <<html_string, has_sink, n>>
  /\ UNCHANGED <<imposeVars, shrinkVars, appVars>>

\* The baseline render and what follows, up to the first loop.
Baseline == \E m \in Measurements : BaselineWith(m) /\ UNCHANGED counted

\* One iteration of `for profile in primary:` together with the loop exit
\* and the `if best_blanks > 0` that follows the loop.
PrimaryTierWith(m) ==
  /\ pc = "primary"
  /\ LET profile == primary(direction)[idx]
         candidate == _inject_css(html_string, profile.css)
     IN   LET blanks == _booklet_blanks(m)
              better == ~Falsy(m) /\ Improves(blanks, best_blanks)
              nb == IF better THEN blanks ELSE best_blanks
              brk == ~Falsy(m) /\ (PerfectFit(nb) \/ Overshoot(direction, m, baseline_pages))
              ends == brk \/ idx = Len(primary(direction))
          IN /\ events' = render_to_pdf(_report(events, profile.name, direction),
                                        profile.name, candidate, profile.scale)
             /\ seq_path' = File(candidate, profile.scale)
             /\ n' = m
             /\ best_html' = IF better THEN candidate ELSE best_html
             /\ best_scale' = IF better THEN profile.scale ELSE best_scale
             /\ best_blanks' = nb
             /\ adjusted' = IF better THEN TRUE ELSE adjusted
             /\ IF ~ends
                THEN pc' = "primary" /\ idx' = idx + 1
                ELSE IF TrySecondary(nb)
                     THEN pc' = "secondary" /\ idx' = 1
                     ELSE pc' = "finalize" /\ idx' = idx
  /\ UNCHANGED <<html_string, has_sink, pages, baseline_pages, direction>>
  /\ UNCHANGED <<imposeVars, shrinkVars, appVars>>

PrimaryTier == \E m \in Measurements : PrimaryTierWith(m) /\ UNCHANGED counted

\* One iteration of `for profile in secondary:` together with the loop exit.
SecondaryTierWith(m) ==
  /\ pc = "secondary"
  /\ LET profile == secondary(direction)[idx]
         candidate == _inject_css(html_string, profile.css)
     IN   LET blanks == _booklet_blanks(m)
              better == ~Falsy(m) /\ Improves(blanks, best_blanks)
              nb == IF better THEN blanks ELSE best_blanks
              brk == ~Falsy(m) /\ PerfectFit(nb)
              ends == brk \/ idx = Len(secondary(direction))
          IN /\ events' = render_to_pdf(_report(events, profile.name, secondary_dir(direction)),
                                        profile.name, candidate, profile.scale)
             /\ seq_path' = File(candidate, profile.scale)
             /\ n' = m
             /\ best_html' = IF better THEN candidate ELSE best_html
             /\ best_scale' = IF better THEN profile.scale ELSE best_scale
             /\ best_blanks' = nb
             /\ adjusted' = IF better THEN TRUE ELSE adjusted
             /\ IF ~ends
                THEN pc' = "secondary" /\ idx' = idx + 1
                ELSE pc' = "finalize" /\ idx' = idx
  /\ UNCHANGED <<html_string, has_sink, pages, baseline_pages, direction>>
  /\ UNCHANGED <<imposeVars, shrinkVars, appVars>>

SecondaryTier == \E m \in Measurements : SecondaryTierWith(m) /\ UNCHANGED counted

\* The tail of the function: re-render the best result if one was adopted.
Finalize ==
  /\ pc = "finalize"
  /\ IF NeedsFinalRender(adjusted)
     THEN /\ events' = render_to_pdf(_report(events, "Finalizing best layout...", ""),
                                     "final", best_html, best_scale)
          /\ seq_path' = File(best_html, best_scale)
     ELSE UNCHANGED <<events, seq_path>>
  /\ pc' = "done"
  /\ UNCHANGED <<html_string, has_sink, pages, n, best_html, best_scale,
                 best_blanks, baseline_pages, adjusted, direction, idx>>
  /\ UNCHANGED <<imposeVars, shrinkVars, counted, appVars>>

ImposeIdle ==
  /\ ipc = "idle" /\ in_pages = 0 /\ padded = Unset /\ i = Unset
  /\ writer = <<>> /\ output_pdf = <<>>
  /\ in_state = "ok" /\ reads = 0

\* render_with_shrink is not running.
ShrinkIdle ==
  /\ spc = "idle" /\ sh_html = <<>> /\ output_path = [stem |-> "", suffix |-> ""]
  /\ max_pages = 0 /\ sh_pages = Unset /\ sh_idx = 0
  /\ files = {} /\ result = [stem |-> "", suffix |-> ""] /\ sh_log = <<>>

\* The dict generate_all has not returned yet.
NoResponse == [kind |-> "none", success |-> FALSE, results |-> <<>>, errors |-> <<>>]
\* self._day and the fields of form_data that generate_all reads.
NoForm == [has_day |-> FALSE, has_date |-> FALSE, selected_docs |-> {}]

\* BulletinAPI.generate_all is not running.
ApiIdle ==
  /\ gpc = "idle" /\ form = NoForm /\ selected = {}
  /\ results = <<>> /\ errors = <<>> /\ creed_page = None
  /\ calls = <<>> /\ response = NoResponse

\* SundaysClient._request is not running.
ClientIdle ==
  /\ rpc = "idle" /\ attempt = 0 /\ _logged_in = FALSE /\ sent = <<>> /\ exc = "none"

AppIdle == ApiIdle /\ ClientIdle

\* No count_pages call has been made.
NoCount == [file |-> [kind |-> "none", pages |-> 0], raised |-> FALSE, value |-> None]

Init ==
  /\ pc = "start"
  /\ html_string \in Docs
  /\ has_sink \in BOOLEAN
  /\ seq_path = NoFile
  /\ pages = Unset /\ n = Unset
  /\ best_html = <<>> /\ best_scale = Unset /\ best_blanks = Unset
  /\ baseline_pages = Unset /\ adjusted = FALSE /\ direction = "unset"
  /\ idx = 0
  /\ events = <<>>
  /\ ImposeIdle
  /\ ShrinkIdle
  /\ counted = NoCount
  /\ AppIdle

Next == Baseline \/ PrimaryTier \/ SecondaryTier \/ Finalize

Spec == Init /\ [][Next]_vars

\* The steps of the function follow one another without waiting on anything
\* but the renderer, which returns: every enabled step is eventually taken.
FairSpec == Init /\ [][Next]_vars /\ WF_vars(Next)


\* ------------------------------------------------------- impose_booklet
\* `padded = n + (4 - n % 4) % 4`
Padded(k) == k + ((4 - (k % 4)) % 4)

\* `num_sheets = padded // 2`, the bound of range(0, num_sheets, 2)
num_sheets(p) == p \div 2

\* Variant: the loop variable is used as the sheet index.
sheet_idx_unhalved(j) == j

\* `sheet_idx = i // 2`
sheet_idx(j) == j \div 2

\* Slot indices of one sheet, 0-indexed reading-order pages.
left_idx(p, s) == p - 2 * s - 1
\* Variant: the docstring's 1-indexed page number used as an index.
right_idx_one_based(p, s) == 2 * s + 1
right_idx(p, s) == 2 * s
back_left_idx(p, s) == 2 * s + 1
\* Variant: the back-right slot repeats the front-left page.
back_right_idx_front(p, s) == p - 2 * s - 1

back_right_idx(p, s) == p - 2 * s - 2

\* Variant: the bound of the merge test is off by one.
Merged_inclusive(slot, k) == slot <= k

\* `if idx < n: merge_transformed_page(reader.pages[idx], ...)`
Merged(slot, k) == slot < k

\* A blank page of width full_w with up to two half pages merged into it:
\* the left one at tx=0, the right one at tx=half_w.
PageObject(l, r, k) ==
  [left |-> l, right |-> r, left_merged |-> Merged(l, k), right_merged |-> Merged(r, k)]

\* What an earlier run left at the destination: one two-up side.
OldBooklet == << PageObject(0, 0, 0) >>

\* `reader = PdfReader(...)`, `n = len(reader.pages)`, padding, `writer = PdfWriter()`.
\* An input that cannot be parsed makes PdfReader raise.
ImposeRead ==
  /\ ipc = "start"
  /\ reads' = reads + 1
  /\ IF in_state = "unreadable"
     THEN /\ ipc' = "raised"
          /\ UNCHANGED <<padded, i, writer>>
     ELSE /\ padded' = Padded(in_pages)
          /\ i' = 0
          /\ writer' = <<>>
          /\ ipc' = IF 0 < num_sheets(Padded(in_pages)) THEN "loop" ELSE "write"
  /\ UNCHANGED <<in_pages, output_pdf, in_state>>
  /\ UNCHANGED <<autofitVars, shrinkVars, counted, appVars>>

\* One iteration of `for i in range(0, num_sheets, 2):` - a front, then a back.
\* A page whose content cannot be read makes the first merge raise.
ImposeSheet ==
  /\ ipc = "loop"
  /\ IF in_state = "bad_page"
     THEN /\ ipc' = "raised"
          /\ UNCHANGED <<i, writer>>
     ELSE /\ LET s == sheet_idx(i)
                 front == PageObject(left_idx(padded, s), right_idx(padded, s), in_pages)
                 back == PageObject(back_left_idx(padded, s), back_right_idx(padded, s), in_pages)
             IN writer' = writer \o <<front, back>>
          /\ i' = i + 2
          /\ ipc' = IF i + 2 < num_sheets(padded) THEN "loop" ELSE "write"
  /\ UNCHANGED <<in_pages, padded, output_pdf, in_state, reads>>
  /\ UNCHANGED <<autofitVars, shrinkVars, counted, appVars>>

\* Variant: the output is written in a `finally`, also after an exception.
ReachesWrite_finally(p) == p \in {"write", "raised"}

\* The write is the last statement: it is reached only past the loop.
ReachesWrite(p) == p = "write"

\* `with open(output_pdf, "wb") as f: writer.write(f)`
ImposeWrite ==
  /\ ReachesWrite(ipc)
  /\ output_pdf' = writer
  /\ ipc' = "done"
  /\ UNCHANGED <<in_pages, padded, i, writer, in_state, reads>>
  /\ UNCHANGED <<autofitVars, shrinkVars, counted, appVars>>

AutofitIdle ==
  /\ pc = "idle" /\ html_string = <<>> /\ has_sink = FALSE /\ seq_path = NoFile
  /\ pages = Unset /\ n = Unset
  /\ best_html = <<>> /\ best_scale = Unset /\ best_blanks = Unset
  /\ baseline_pages = Unset /\ adjusted = FALSE /\ direction = "unset"
  /\ idx = 0 /\ events = <<>>

ImposeInit ==
  /\ AutofitIdle
  /\ ShrinkIdle
  /\ counted = NoCount
  /\ AppIdle
  /\ ipc = "start"
  /\ in_pages \in 0..MaxN
  /\ in_state \in {"ok", "unreadable", "bad_page"}
  /\ in_state = "bad_page" => in_pages > 0
  /\ reads = 0
  /\ padded = Unset /\ i = Unset
  /\ writer = <<>>
  /\ output_pdf \in {<<>>, OldBooklet}

ImposeNext == ImposeRead \/ ImposeSheet \/ ImposeWrite

SpecImpose == ImposeInit /\ [][ImposeNext]_vars


\* ============================================================== claims
\* Views of the event log.
IsRender(e) == e.kind = "render"
IsTier(e) == e.kind = "render" /\ e.what \notin {"baseline", "final"}
Renders == SelectSeq(events, IsRender)
RenderNames == [k \in 1..Len(Renders) |-> Renders[k].what]
TierNames == LET t == SelectSeq(events, IsTier) IN [k \in 1..Len(t) |-> t[k].what]
Names(ladder) == [k \in 1..Len(ladder) |-> ladder[k].name]
InLadder(ladder, name) == \E k \in 1..Len(ladder) : ladder[k].name = name
BaselineFile == File(html_string, DefaultScale)
\* The run went past the baseline into the search.
Searching == baseline_pages # Unset

\* C1: when Auto-Fit returns and no tier improved on the baseline, the
\* destination file holds the baseline render (unmodified markup, scale 1.0).
C1_BaselineLeftOnDisk ==
  (pc = "done" /\ ~adjusted) => seq_path = BaselineFile

\* C2: when some tier beat the baseline's blank count, exactly one more
\* render follows the search, of the best markup at the best scale, and the
\* destination file at return is that render.
C2_FinalizeRendersBest ==
  (pc = "done" /\ Searching /\ best_blanks < _booklet_blanks(baseline_pages)) =>
     LET r == Renders
         last == r[Len(r)]
     IN /\ Len(r) >= 3
        /\ last = [kind |-> "render", what |-> "final", dir |-> "",
                   html |-> best_html, scale |-> best_scale]
        /\ \A k \in 1..Len(r) - 1 : r[k].what # "final"
        /\ seq_path = File(best_html, best_scale)

\* C2 witness: a finished run whose best candidate is not the tier tried last.
C2_Witness ==
  /\ pc = "done" /\ adjusted
  /\ Len(Renders) >= 3
  /\ Renders[Len(Renders) - 1].html # best_html
  /\ seq_path = File(best_html, best_scale)


\* Slots of the written booklet: one <<left, right>> pair per output side.
Slots(out) == [k \in 1..Len(out) |-> <<out[k].left, out[k].right>>]

\* C3: with padded the least multiple of 4 >= N, sheet k carries
\* front = (padded-2k-1, 2k) and back = (2k+1, padded-2k-2); N = 4, 8, 12
\* give the hand-computed tables; the docstring's 1-indexed formula
\* (front [N-2i, 2i+1], back [2i+2, N-2i-1]) names the same pages.
C3_SlotArithmetic ==
  ipc = "done" =>
    /\ padded % 4 = 0 /\ padded >= in_pages /\ padded - in_pages < 4
    /\ Len(output_pdf) = 2 * (padded \div 4)
    /\ \A k \in 0..((padded \div 4) - 1) :
         /\ output_pdf[2 * k + 1].left = padded - 2 * k - 1
         /\ output_pdf[2 * k + 1].right = 2 * k
         /\ output_pdf[2 * k + 2].left = 2 * k + 1
         /\ output_pdf[2 * k + 2].right = padded - 2 * k - 2
         /\ <<output_pdf[2 * k + 1].left + 1, output_pdf[2 * k + 1].right + 1>>
              = <<padded - 2 * k, 2 * k + 1>>
         /\ <<output_pdf[2 * k + 2].left + 1, output_pdf[2 * k + 2].right + 1>>
              = <<2 * k + 2, padded - 2 * k - 1>>
    /\ (in_pages = 4 => Slots(output_pdf) = << <<3, 0>>, <<1, 2>> >>)
    /\ (in_pages = 8 => Slots(output_pdf) =
          << <<7, 0>>, <<1, 6>>, <<5, 2>>, <<3, 4>> >>)
    /\ (in_pages = 12 => Slots(output_pdf) =
          << <<11, 0>>, <<1, 10>>, <<9, 2>>, <<3, 8>>, <<7, 4>>, <<5, 6>> >>)

\* C3 witness: a 10-page input imposed on three sheets (padded to 12).
C3_Witness ==
  /\ ipc = "done" /\ in_pages = 10 /\ padded = 12
  /\ Slots(output_pdf) = << <<11, 0>>, <<1, 10>>, <<9, 2>>, <<3, 8>>, <<7, 4>>, <<5, 6>> >>

\* The page met at position j (1-based) when the nested, folded sheets are
\* read leaf by leaf: front-right then back-left of sheets 0..m-1, then
\* back-right then front-left of sheets m-1..0.
Leaf(out, m, j) ==
  IF j <= 2 * m
  THEN LET s == (j - 1) \div 2
       IN IF (j - 1) % 2 = 0 THEN out[2 * s + 1].right ELSE out[2 * s + 2].left
  ELSE LET q == j - 2 * m - 1
           s == m - 1 - (q \div 2)
       IN IF q % 2 = 0 THEN out[2 * s + 2].right ELSE out[2 * s + 1].left

\* C4: reading the folded booklet leaf by leaf yields 0, 1, .., padded-1.
C4_ReadingOrderRestored ==
  ipc = "done" =>
    LET m == Len(output_pdf) \div 2
    IN /\ 4 * m = Padded(in_pages)
       /\ [j \in 1..(4 * m) |-> Leaf(output_pdf, m, j)] = [j \in 1..(4 * m) |-> j - 1]

\* C4 witness: a four-sheet booklet (13 pages padded to 16) read back in order.
C4_Witness ==
  /\ ipc = "done" /\ in_pages = 13 /\ Len(output_pdf) = 8
  /\ Leaf(output_pdf, 4, 9) = 8 /\ Leaf(output_pdf, 4, 16) = 15

\* The direction rule on the state: tighten iff (P mod 4) <= (4 - P mod 4) mod 4,
\* and the first tier rendered belongs to the chosen ladder.
C5_DirectionRule ==
  Searching =>
    LET P == baseline_pages
        tighten == (P % 4) <= ((4 - (P % 4)) % 4)
    IN /\ P % 4 # 0
       /\ direction = IF tighten THEN "tighten" ELSE "loosen"
       /\ (P = 14 => direction = "tighten")
       /\ (Len(TierNames) >= 1 => TierNames[1] = IF tighten THEN "T1" ELSE "L1")

\* C5: for a baseline P that is not a multiple of 4 the primary direction is
\* tighten iff (P mod 4) <= (4 - P mod 4) mod 4, else loosen (a tie, such as
\* P = 14, is tighten); the search starts on that ladder and the direction is
\* never changed afterwards.
C5_DirectionChosenOnce ==
  []C5_DirectionRule /\ [][Searching => direction' = direction]_vars

\* C5 witness: a 14-page baseline (tie) that has started on the tighten ladder
\* and has since measured a count on the other side of the tie.
C5_Witness ==
  /\ baseline_pages = 14 /\ direction = "tighten"
  /\ Len(TierNames) >= 2 /\ TierNames[1] = "T1" /\ n = 11


\* The 13-page scenario: T3 was the latest tier rendered and measured 12.
C6_Scenario ==
  (baseline_pages = 13 /\ TierNames # <<>> /\ TierNames[Len(TierNames)] = "T3" /\ n = 12) =>
     /\ best_blanks = 0 /\ adjusted
     /\ pc \in {"finalize", "done"}
     /\ RenderNames = IF pc = "done"
                      THEN <<"baseline", "T1", "T2", "T3", "final">>
                      ELSE <<"baseline", "T1", "T2", "T3">>

\* C6: once a tier attempt has brought best_blanks to 0, the only render that
\* follows is the single finalize render.  A 13-page baseline whose tighten
\* tier 3 is the first to measure 12 pages renders exactly baseline, T1, T2,
\* T3 and one finalize render, ending with best_blanks = 0 and adjusted.
C6_StopAtPerfectFit ==
  /\ []C6_Scenario
  /\ [][best_blanks = 0 =>
          /\ pc = "finalize" /\ pc' = "done"
          /\ Len(Renders') = Len(Renders) + 1
          /\ Renders'[Len(Renders')].what = "final"]_vars

\* C6 witness: the 13-page run finished after T3 measured 12 pages.
C6_Witness ==
  /\ pc = "done" /\ baseline_pages = 13 /\ n = 12
  /\ RenderNames = <<"baseline", "T1", "T2", "T3", "final">>
  /\ best_blanks = 0 /\ adjusted

\* The primary loop has been left.
Halted == pc \in {"secondary", "finalize", "done"}
\* Number of tiers of the primary direction's ladder rendered so far.
PrimaryCount ==
  Len(SelectSeq(events, LAMBDA e : IsTier(e) /\ InLadder(primary(direction), e.what)))
\* A measured count past the multiple of 4 the primary direction aims at,
\* both computed from the original baseline.
PastBoundary(dir, m, base) ==
  /\ m # None
  /\ \/ dir = "tighten" /\ m < base - (base % 4)
     \/ dir = "loosen" /\ m > base + ((4 - (base % 4)) % 4)

\* C7: a primary tier whose measured count overshoots the boundary computed
\* from the original baseline ends the primary search, and no tier of the
\* primary direction is attempted after the primary search has ended.
C7_OvershootHaltsPrimary ==
  [][ /\ (pc = "primary" /\ PastBoundary(direction, n', baseline_pages)) => Halted'
      /\ Halted => (Halted' /\ PrimaryCount' = PrimaryCount) ]_vars

\* C7 witness: a 13-page baseline dropped to 10 pages at tighten tier 2 and
\* the run has moved on without rendering T3.
C7_Witness ==
  /\ baseline_pages = 13 /\ direction = "tighten" /\ n = 10
  /\ pc = "secondary" /\ idx = 1
  /\ RenderNames = <<"baseline", "T1", "T2">>

\* C8: a baseline count that is a multiple of 4, or unmeasurable, means
\* exactly one render, no profile attempt, no finalize render, and the
\* report that the layout fits (no blank pages needed).
C8_BaselineAlreadyFits ==
  (pc # "start" /\ (pages = None \/ (pages \in PageCounts /\ pages % 4 = 0))) =>
     /\ pc = "done"
     /\ RenderNames = <<"baseline">>
     /\ TierNames = <<>>
     /\ seq_path = BaselineFile
     /\ ~adjusted /\ best_blanks = Unset
     /\ (has_sink => events[Len(events)].what = "Layout fits perfectly")

\* C8 witness: an 8-page baseline, finished after its single render.
C8_Witness ==
  /\ pc = "done" /\ pages = 8 /\ has_sink
  /\ Len(events) = 3 /\ events[2].what = "baseline"

\* The best never exceeds the baseline's blank count.
C9_Bound == Searching => best_blanks <= _booklet_blanks(baseline_pages)

\* C9: best_blanks never increases from one attempt to the next, never
\* exceeds the baseline's blank count, and changes only to the blank count of
\* an attempt that is strictly lower than the current best.
C9_MonotonicImprovement ==
  /\ []C9_Bound
  /\ [][Searching =>
          /\ best_blanks' <= best_blanks
          /\ (best_blanks' # best_blanks =>
                /\ n' \in PageCounts
                /\ (4 - (n' % 4)) % 4 < best_blanks
                /\ best_blanks' = (4 - (n' % 4)) % 4)]_vars

\* C9 witness: in the secondary search, after an improvement from 3 blanks
\* to 1, an attempt with a worse count has left the best untouched.
C9_Witness ==
  /\ pc = "secondary" /\ idx > 1 /\ adjusted
  /\ _booklet_blanks(baseline_pages) = 3 /\ best_blanks = 1
  /\ n \in PageCounts /\ _booklet_blanks(n) = 2

\* Tiers of the opposite direction's ladder rendered so far.
SecondaryNames ==
  LET t == SelectSeq(events, LAMBDA e : IsTier(e) /\ InLadder(secondary(direction), e.what))
  IN [k \in 1..Len(t) |-> t[k].what]

\* The secondary tiers rendered so far are a prefix of the opposite ladder,
\* cut short only by a perfect fit.
C10_SecondaryShape ==
  Searching =>
    LET k == Len(SecondaryNames)
    IN /\ SecondaryNames = SubSeq(Names(secondary(direction)), 1, k)
       /\ (k > 0 => Halted)
       /\ (pc = "secondary" => idx = k + 1 /\ k < 6 /\ best_blanks > 0)
       /\ (pc \in {"finalize", "done"} /\ k < 6 => best_blanks = 0)

\* C10: the opposite ladder is searched iff the primary search ended with
\* best_blanks > 0; its tiers are tried in order from tier 1, whatever the
\* counts measured, until best_blanks is 0 or tier 6 has been tried.
C10_SecondaryFallback ==
  /\ []C10_SecondaryShape
  /\ [][ /\ (pc = "primary" /\ pc' # "primary") =>
              /\ pc' = "secondary" <=> best_blanks' > 0
              /\ pc' = "secondary" => idx' = 1
         /\ pc = "secondary" =>
              /\ Renders'[Len(Renders')].what = secondary(direction)[idx].name
              /\ pc' = IF best_blanks' > 0 /\ idx < 6 THEN "secondary" ELSE "finalize" ]_vars

\* C10 witness: all six secondary tiers were tried without a perfect fit,
\* the last one measuring a count far past the baseline.
C10_Witness ==
  /\ pc = "finalize" /\ Len(SecondaryNames) = 6 /\ best_blanks > 0
  /\ direction = "tighten" /\ baseline_pages = 5 /\ n = 14


\* The profile carrying a tier name.
ProfileNamed(name) ==
  CHOOSE p \in {BULLETIN_TIGHTEN_PROFILES[k] : k \in 1..Len(BULLETIN_TIGHTEN_PROFILES)}
               \cup {BULLETIN_LOOSEN_PROFILES[k] : k \in 1..Len(BULLETIN_LOOSEN_PROFILES)} :
    p.name = name
\* The style texts found behind an auto-adjust marker, in document order.
RECURSIVE Injected(_)
Injected(html) ==
  IF Len(html) < 2 THEN <<>>
  ELSE IF Head(html) = "/* auto-adjust */"
       THEN <<html[2]>> \o Injected(Tail(Tail(html)))
       ELSE Injected(Tail(html))
\* The document with every marker and the style text behind it taken out.
RECURSIVE Strip(_)
Strip(html) ==
  IF html = <<>> THEN <<>>
  ELSE IF Head(html) = "/* auto-adjust */" /\ Len(html) >= 2
       THEN Strip(Tail(Tail(html)))
       ELSE <<Head(html)>> \o Strip(Tail(html))

\* C11: every candidate rendered during the search is the untouched baseline
\* markup plus the overrides of exactly one profile, the one being tried,
\* rendered at that profile's scale.
C11_CandidateFromBaseline ==
  \A k \in 1..Len(events) :
    IsTier(events[k]) =>
      LET e == events[k]
          p == ProfileNamed(e.what)
      IN /\ Strip(e.html) = html_string
         /\ Injected(e.html) = <<p.css>>
         /\ e.scale = p.scale
         /\ e.html # best_html \/ adjusted

\* C11 witness: T2 has become the best and L1 was rendered after it, carrying
\* only its own overrides.
C11_Witness ==
  /\ adjusted /\ Injected(best_html) = <<"css-T2">>
  /\ TierNames # <<>> /\ TierNames[Len(TierNames)] = "L1"
  /\ seq_path.html = <<"<style>", "base-css", "/* auto-adjust */", "css-L1", "</style>", "<body>">>

\* Without an adopted tier the best is the baseline itself.
C12_BaselineKept ==
  (Searching /\ ~adjusted) =>
     /\ best_html = html_string /\ best_scale = DefaultScale
     /\ best_blanks = (4 - (baseline_pages % 4)) % 4

\* C12: a tier attempt with an unmeasurable count leaves best_html,
\* best_scale, best_blanks and adjusted unchanged and the search goes on with
\* the next tier of the same direction; with every tier unmeasurable the run
\* ends with the baseline as best and the baseline's own blank count.
C12_UnmeasurableSkipped ==
  /\ []C12_BaselineKept
  /\ [][(pc \in {"primary", "secondary"} /\ n' = None) =>
          /\ UNCHANGED <<best_html, best_scale, best_blanks, adjusted>>
          /\ (idx < 6 => pc' = pc /\ idx' = idx + 1)
          /\ (idx = 6 => pc' = IF pc = "primary" THEN "secondary" ELSE "finalize")]_vars

\* C12 witness: all twelve tiers were rendered, the last one unmeasurable,
\* nothing was adopted and the run has returned.
C12_Witness ==
  /\ pc = "done" /\ Len(TierNames) = 12 /\ n = None /\ ~adjusted
  /\ best_html = html_string /\ best_blanks = 3

\* Tiers of one ladder rendered so far.
TriedIn(ladder) == Len(SelectSeq(events, LAMBDA e : IsTier(e) /\ InLadder(ladder, e.what)))

\* At most six tiers per direction and fourteen renders in all.
C13_Bounded ==
  /\ TriedIn(BULLETIN_TIGHTEN_PROFILES) <= 6
  /\ TriedIn(BULLETIN_LOOSEN_PROFILES) <= 6
  /\ Len(TierNames) = TriedIn(BULLETIN_TIGHTEN_PROFILES) + TriedIn(BULLETIN_LOOSEN_PROFILES)
  /\ Len(Renders) <= 14

\* C13: whatever counts are measured, with a renderer that returns, the run
\* ends normally after at most six tiers per direction and at most 14
\* renders; ending without a perfect fit is a normal return.
C13_Terminates ==
  /\ []C13_Bounded
  /\ <>(pc = "done")

\* C13 witness: a run that returned after 14 renders without a perfect fit.
C13_Witness ==
  /\ pc = "done" /\ Len(Renders) = 14 /\ best_blanks > 0


\* The slots of the written booklet as <<index, merged>> pairs.
SlotSet(out) ==
  {<<out[k].left, out[k].left_merged>> : k \in 1..Len(out)}
    \cup {<<out[k].right, out[k].right_merged>> : k \in 1..Len(out)}

\* C17: a slot receives page content iff its reading-order index is < N;
\* exactly padded - N slots (0 to 3) stay blank, those with the highest
\* indices.  For N = 10: sheet 0 front = (11 blank, 0 filled), sheet 0
\* back = (1 filled, 10 blank).
C17_BlankSlots ==
  ipc = "done" =>
    LET blank == {sl \in SlotSet(output_pdf) : ~sl[2]}
    IN /\ \A sl \in SlotSet(output_pdf) : sl[2] <=> sl[1] < in_pages
       /\ Cardinality(blank) = padded - in_pages
       /\ Cardinality(blank) \in 0..3
       /\ {sl[1] : sl \in blank} = in_pages..(padded - 1)
       /\ (in_pages = 10 =>
             /\ output_pdf[1] = [left |-> 11, right |-> 0,
                                 left_merged |-> FALSE, right_merged |-> TRUE]
             /\ output_pdf[2] = [left |-> 1, right |-> 10,
                                 left_merged |-> TRUE, right_merged |-> FALSE])

\* C17 witness: a 9-page input, written with its three highest slots blank.
C17_Witness ==
  /\ ipc = "done" /\ in_pages = 9 /\ padded = 12
  /\ {sl[1] : sl \in {t \in SlotSet(output_pdf) : ~t[2]}} = {9, 10, 11}

\* C18: with a malformed or unreadable input impose_booklet ends in an
\* error, opens the input only once, and leaves the destination as it was:
\* neither created nor overwritten.
C18_MalformedInputFails ==
  /\ [](in_state # "ok" =>
          /\ reads <= 1
          /\ ipc \in {"start", "loop", "raised"}
          /\ (~ENABLED ImposeNext => ipc = "raised" /\ reads = 1))
  /\ [][in_state # "ok" => output_pdf' = output_pdf]_vars

\* C18 witness: an unreadable input has raised and the earlier booklet is
\* still at the destination.
C18_Witness ==
  /\ ipc = "raised" /\ in_state = "unreadable" /\ reads = 1
  /\ output_pdf = OldBooklet /\ writer = <<>>


\* ==================================================== render_with_shrink
\* Largest max_pages argument tried.
MaxCeiling == 2

AUTO_SHRINK_SCALES == <<95, 90, 85, 80>>

\* Path(p).with_suffix(suffix): the stem is kept, the suffix replaced.
with_suffix(path, suffix) == [stem |-> path.stem, suffix |-> suffix]

\* The output_path arguments tried: with and without the .pdf suffix.
ShrinkPaths == {[stem |-> "card", suffix |-> ""], [stem |-> "card", suffix |-> ".pdf"]}

\* A whole-file write: what was at the path is replaced.
WriteFile(fs, path, html, scale) ==
  {f \in fs : f.path # path} \cup {[path |-> path, html |-> html, scale |-> scale]}

\* Variant: the scaled attempts are rendered to a scratch file.
AttemptPath_scratch(out, scale) ==
  IF scale = DefaultScale THEN out ELSE [stem |-> "scratch", suffix |-> ".pdf"]

\* Every render_to_pdf call of render_with_shrink is given output_path.
AttemptPath(out, scale) == out

\* Variant: the ceiling itself does not count as fitting.
ShrinkFits_strict(m, mx) == m # None /\ m < mx

\* `if pages is not None and pages <= max_pages: return result`
ShrinkFits(m, mx) == m # None /\ m <= mx

\* Variant: an unmeasurable baseline is sent into the ladder.
ShrinkBaselineReturns_measured_only(m, mx) == m # None /\ m <= mx

\* `if pages is None or pages <= max_pages: return result`
ShrinkBaselineReturns(m, mx) == m = None \/ m <= mx

\* The suffix change, the render at the default scale, its count and the
\* early return.
ShrinkBaselineWith(m) ==
  /\ spc = "start"
  /\ LET out == with_suffix(output_path, ".pdf")
         dest == AttemptPath(out, DefaultScale)
     IN /\ output_path' = out
        /\ files' = WriteFile(files, dest, sh_html, DefaultScale)
        /\ result' = dest
  /\ sh_log' = Append(sh_log, DefaultScale)
  /\ sh_pages' = m
  /\ IF ShrinkBaselineReturns(m, max_pages)
     THEN spc' = "done" /\ sh_idx' = sh_idx
     ELSE spc' = "loop" /\ sh_idx' = 1
  /\ UNCHANGED <<sh_html, max_pages>>
  /\ UNCHANGED <<autofitVars, imposeVars, appVars>>

ShrinkBaseline == \E m \in Measurements : ShrinkBaselineWith(m) /\ UNCHANGED counted

\* One iteration of `for scale in AUTO_SHRINK_SCALES:` together with the
\* `return result` behind the loop.
ShrinkScaleWith(m) ==
  /\ spc = "loop"
  /\ LET scale == AUTO_SHRINK_SCALES[sh_idx]
         dest == AttemptPath(output_path, scale)
     IN /\ files' = WriteFile(files, dest, sh_html, scale)
        /\ result' = dest
        /\ sh_log' = Append(sh_log, scale)
  /\ sh_pages' = m
  /\ IF ShrinkFits(m, max_pages) \/ sh_idx = Len(AUTO_SHRINK_SCALES)
     THEN spc' = "done" /\ sh_idx' = sh_idx
     ELSE spc' = "loop" /\ sh_idx' = sh_idx + 1
  /\ UNCHANGED <<sh_html, output_path, max_pages>>
  /\ UNCHANGED <<autofitVars, imposeVars, appVars>>

ShrinkScale == \E m \in Measurements : ShrinkScaleWith(m) /\ UNCHANGED counted

ShrinkStart ==
  /\ spc = "start"
  /\ sh_html \in Docs
  /\ output_path \in ShrinkPaths
  /\ max_pages \in 1..MaxCeiling
  /\ sh_pages = Unset /\ sh_idx = 0
  /\ files = {} /\ result = [stem |-> "", suffix |-> ""] /\ sh_log = <<>>

ShrinkInit ==
  /\ AutofitIdle
  /\ ImposeIdle
  /\ counted = NoCount
  /\ AppIdle
  /\ ShrinkStart

ShrinkNext == ShrinkBaseline \/ ShrinkScale

SpecShrink == ShrinkInit /\ [][ShrinkNext]_vars

\* The scale of the attempt the run is at: 1.0 before the ladder.
CurrentScale == IF sh_idx = 0 THEN DefaultScale ELSE AUTO_SHRINK_SCALES[sh_idx]
\* The latest count met the ceiling.
CeilingMet == sh_pages \in PageCounts /\ sh_pages <= max_pages

\* The renders made so far are an initial part of 1.0, 0.95, 0.90, 0.85, 0.80.
C15_LadderOrder ==
  /\ sh_log = SubSeq(<<100, 95, 90, 85, 80>>, 1, Len(sh_log))
  /\ (spc = "done" /\ Len(sh_log) > 1 =>
        /\ CeilingMet \/ sh_log = <<100, 95, 90, 85, 80>>
        /\ result = output_path)

\* C15: a document over max_pages at scale 1.0 is rendered at 1.0, 0.95,
\* 0.90, 0.85, 0.80 in that order; the run returns at the first scale whose
\* count is <= max_pages and tries no smaller one; when no scale fits it
\* returns normally with the 0.80 attempt.
C15_ShrinkLadder ==
  /\ []C15_LadderOrder
  /\ [][ /\ (spc = "start" /\ sh_pages' \in PageCounts /\ sh_pages' > max_pages) =>
              (spc' = "loop" /\ sh_idx' = 1)
         /\ (spc = "loop" /\ sh_pages' \in PageCounts /\ sh_pages' <= max_pages) =>
              spc' = "done"
         /\ (spc = "loop" /\ ~(sh_pages' \in PageCounts /\ sh_pages' <= max_pages)) =>
              IF sh_idx < 4 THEN spc' = "loop" /\ sh_idx' = sh_idx + 1
              ELSE spc' = "done"
         /\ spc = "done" => UNCHANGED <<sh_log, files>> ]_vars

\* C15 witness: no scale met a ceiling of 2 and the run returned with the
\* 0.80 attempt, which measured 3 pages.
C15_Witness ==
  /\ spc = "done" /\ max_pages = 2 /\ sh_pages = 3
  /\ sh_log = <<100, 95, 90, 85, 80>> /\ result = output_path

\* C16: every attempt overwrites the one destination file, and at return it
\* holds the render at the chosen scale, which is the last render made; no
\* other render is left on disk.
C16_OnlyChosenRenderOnDisk ==
  spc \in {"loop", "done"} =>
    /\ files = {[path |-> output_path, html |-> sh_html, scale |-> sh_log[Len(sh_log)]]}
    /\ output_path.suffix = ".pdf"
    /\ (spc = "done" =>
          /\ result = output_path
          /\ \A f \in files : f.scale = CurrentScale)

\* C16 witness: the run returned at 0.90 after three renders.
C16_Witness ==
  /\ spc = "done" /\ sh_log = <<100, 95, 90>> /\ CeilingMet
  /\ files = {[path |-> [stem |-> "card", suffix |-> ".pdf"], html |-> sh_html, scale |-> 90]}


\* ======================================= the pipeline with its failures
\* SpecFull runs the same functions with a renderer that may raise and with
\* count_pages applied to what PdfReader does with the file.

\* Superclass of an exception class (Python built-ins and pypdf.errors).
ExceptionParent(cls) ==
  CASE cls = "ModuleNotFoundError" -> "ImportError"
    [] cls = "FileNotFoundError" -> "OSError"
    [] cls = "PdfReadError" -> "PyPdfError"
    [] cls \in {"AuthError", "NetworkError"} -> "BulletinError"
    [] cls = "httpx.ConnectError" -> "httpx.NetworkError"
    [] cls \in {"httpx.TimeoutException", "httpx.NetworkError"} -> "httpx.TransportError"
    [] cls = "httpx.TransportError" -> "httpx.RequestError"
    [] cls \in {"httpx.RequestError", "httpx.HTTPStatusError"} -> "httpx.HTTPError"
    [] cls \in {"ImportError", "OSError", "ValueError", "PyPdfError", "RuntimeError",
                "BulletinError", "httpx.HTTPError"} -> "Exception"
    [] OTHER -> "BaseException"

\* isinstance(exception of class cls, target): the test an except clause makes.
RECURSIVE IsInstance(_, _)
IsInstance(cls, target) ==
  IF cls = target THEN TRUE
  ELSE IF cls = "BaseException" THEN FALSE
  ELSE IsInstance(ExceptionParent(cls), target)

\* What `len(PdfReader(str(pdf_path)).pages)` does: a page count, or an
\* exception (pypdf missing, file missing, unparsable number, corrupt file).
ReadOutcomes ==
  {[kind |-> "ok", pages |-> k] : k \in PageCounts}
    \cup {[kind |-> e, pages |-> 0] :
            e \in {"ModuleNotFoundError", "FileNotFoundError", "ValueError", "PdfReadError"}}

\* count_pages: `except ImportError`, `except (OSError, ValueError)`; an
\* exception of any other class leaves the function.
count_pages(o) ==
  IF o.kind = "ok" THEN [raised |-> FALSE, value |-> o.pages]
  ELSE IF IsInstance(o.kind, "ImportError") THEN [raised |-> FALSE, value |-> None]
  ELSE IF IsInstance(o.kind, "OSError") \/ IsInstance(o.kind, "ValueError")
       THEN [raised |-> FALSE, value |-> None]
  ELSE [raised |-> TRUE, value |-> None]

Counted(o) == [file |-> o, raised |-> count_pages(o).raised, value |-> count_pages(o).value]

\* The render _auto_adjust_bulletin makes next, with the report before it.
Upcoming ==
  CASE pc = "start" ->
         [report |-> "Rendering baseline layout...", dir |-> "", what |-> "baseline",
          html |-> html_string, scale |-> DefaultScale]
    [] pc = "primary" ->
         [report |-> primary(direction)[idx].name, dir |-> direction,
          what |-> primary(direction)[idx].name,
          html |-> _inject_css(html_string, primary(direction)[idx].css),
          scale |-> primary(direction)[idx].scale]
    [] pc = "secondary" ->
         [report |-> secondary(direction)[idx].name, dir |-> secondary_dir(direction),
          what |-> secondary(direction)[idx].name,
          html |-> _inject_css(html_string, secondary(direction)[idx].css),
          scale |-> secondary(direction)[idx].scale]
    [] OTHER ->
         [report |-> "Finalizing best layout...", dir |-> "", what |-> "final",
          html |-> best_html, scale |-> best_scale]

\* An exception leaves _auto_adjust_bulletin: its locals are gone.
Unwound ==
  /\ pc' = "raised"
  /\ pages' = Unset /\ n' = Unset
  /\ best_html' = <<>> /\ best_scale' = Unset /\ best_blanks' = Unset
  /\ baseline_pages' = Unset /\ adjusted' = FALSE /\ direction' = "unset"
  /\ idx' = 0
  /\ UNCHANGED <<html_string, has_sink>>

\* render_to_pdf raises: nothing is written, nothing is counted.
RenderRaises ==
  /\ \/ pc \in {"start", "primary", "secondary"}
     \/ pc = "finalize" /\ NeedsFinalRender(adjusted)
  /\ events' = Append(_report(events, Upcoming.report, Upcoming.dir),
                      [kind |-> "render_failed", what |-> Upcoming.what, dir |-> "",
                       html |-> Upcoming.html, scale |-> Upcoming.scale])
  /\ Unwound
  /\ UNCHANGED <<seq_path, counted>>
  /\ UNCHANGED <<imposeVars, shrinkVars, appVars>>

\* The render succeeds and count_pages lets an exception through.
CountEscapes ==
  /\ pc \in {"start", "primary", "secondary"}
  /\ \E o \in ReadOutcomes :
       /\ count_pages(o).raised
       /\ counted' = Counted(o)
  /\ events' = render_to_pdf(_report(events, Upcoming.report, Upcoming.dir),
                             Upcoming.what, Upcoming.html, Upcoming.scale)
  /\ seq_path' = File(Upcoming.html, Upcoming.scale)
  /\ Unwound
  /\ UNCHANGED <<imposeVars, shrinkVars, appVars>>

\* on_progress(msg) raises inside _report, which has no try: the exception
\* leaves _auto_adjust_bulletin before the render the report announces.
SinkRaises ==
  /\ has_sink
  /\ \/ pc \in {"start", "primary", "secondary"}
     \/ pc = "finalize" /\ NeedsFinalRender(adjusted)
  /\ events' = Append(events, [kind |-> "report_failed", what |-> Upcoming.report,
                               dir |-> Upcoming.dir, html |-> <<>>, scale |-> 0])
  /\ Unwound
  /\ UNCHANGED <<seq_path, counted>>
  /\ UNCHANGED <<imposeVars, shrinkVars, appVars>>

\* on_progress raises at the report that follows the baseline measurement.
SinkRaisesAfterBaseline ==
  /\ has_sink
  /\ pc = "start"
  /\ \E o \in ReadOutcomes :
       /\ ~count_pages(o).raised
       /\ counted' = Counted(o)
       /\ events' = Append(render_to_pdf(_report(events, Upcoming.report, Upcoming.dir),
                                         Upcoming.what, Upcoming.html, Upcoming.scale),
                           [kind |-> "report_failed",
                            what |-> IF BaselineFits(count_pages(o).value)
                                     THEN "Layout fits perfectly"
                                     ELSE "Baseline: adjusting...",
                            dir |-> "", html |-> <<>>, scale |-> 0])
  /\ seq_path' = File(Upcoming.html, Upcoming.scale)
  /\ Unwound
  /\ UNCHANGED <<imposeVars, shrinkVars, appVars>>

FullBaseline ==
  \E o \in ReadOutcomes :
    ~count_pages(o).raised /\ BaselineWith(count_pages(o).value) /\ counted' = Counted(o)
FullPrimaryTier ==
  \E o \in ReadOutcomes :
    ~count_pages(o).raised /\ PrimaryTierWith(count_pages(o).value) /\ counted' = Counted(o)
FullSecondaryTier ==
  \E o \in ReadOutcomes :
    ~count_pages(o).raised /\ SecondaryTierWith(count_pages(o).value) /\ counted' = Counted(o)

\* Variant: generate_bulletin goes on after a failed auto-adjust.
AutoAdjustReturned_or_raised(p) == p \in {"done", "raised"}

\* generate_bulletin calls _auto_adjust_bulletin outside any try: the next
\* statement runs only when the call returned.
AutoAdjustReturned(p) == p = "done"

\* The condition of the sequential file handed to impose_booklet.
HandedOver == {"ok", "unreadable"}

\* generate_bulletin after _auto_adjust_bulletin: the "Assembling booklet..."
\* report and the call of impose_booklet(seq_path, output_path).
GenerateImposes ==
  /\ AutoAdjustReturned(pc)
  /\ ipc = "idle"
  /\ events' = _report(events, "Assembling booklet...", "")
  /\ pc' = "returned"
  /\ pages' = Unset /\ n' = Unset
  /\ best_html' = <<>> /\ best_scale' = Unset /\ best_blanks' = Unset
  /\ baseline_pages' = Unset /\ adjusted' = FALSE /\ direction' = "unset"
  /\ idx' = 0
  /\ ipc' = "start"
  /\ in_pages' \in PageCounts
  /\ in_state' \in HandedOver
  /\ UNCHANGED <<html_string, has_sink, seq_path, padded, i, writer, output_pdf, reads>>
  /\ UNCHANGED <<shrinkVars, counted, appVars>>

\* render_with_shrink with the same two failures.
FullShrinkBaseline ==
  \E o \in ReadOutcomes :
    ~count_pages(o).raised /\ ShrinkBaselineWith(count_pages(o).value) /\ counted' = Counted(o)
FullShrinkScale ==
  \E o \in ReadOutcomes :
    ~count_pages(o).raised /\ ShrinkScaleWith(count_pages(o).value) /\ counted' = Counted(o)

ShrinkRenderRaises ==
  /\ spc \in {"start", "loop"}
  /\ spc' = "raised"
  /\ output_path' = with_suffix(output_path, ".pdf")
  /\ UNCHANGED <<sh_html, max_pages, sh_pages, sh_idx, files, result, sh_log>>
  /\ UNCHANGED <<autofitVars, imposeVars, counted, appVars>>

ShrinkCountEscapes ==
  /\ spc \in {"start", "loop"}
  /\ \E o \in ReadOutcomes :
       /\ count_pages(o).raised
       /\ counted' = Counted(o)
  /\ LET scale == IF spc = "start" THEN DefaultScale ELSE AUTO_SHRINK_SCALES[sh_idx]
         out == with_suffix(output_path, ".pdf")
     IN /\ output_path' = out
        /\ files' = WriteFile(files, AttemptPath(out, scale), sh_html, scale)
        /\ result' = AttemptPath(out, scale)
        /\ sh_log' = Append(sh_log, scale)
  /\ spc' = "raised"
  /\ UNCHANGED <<sh_html, max_pages, sh_pages, sh_idx>>
  /\ UNCHANGED <<autofitVars, imposeVars, appVars>>

FullInit ==
  /\ counted = NoCount
  /\ AppIdle
  /\ ImposeIdle
  /\ \/ /\ ShrinkIdle
        /\ pc = "start"
        /\ html_string \in Docs
        /\ has_sink \in BOOLEAN
        /\ seq_path = NoFile
        /\ pages = Unset /\ n = Unset
        /\ best_html = <<>> /\ best_scale = Unset /\ best_blanks = Unset
        /\ baseline_pages = Unset /\ adjusted = FALSE /\ direction = "unset"
        /\ idx = 0
        /\ events = <<>>
     \/ /\ AutofitIdle
        /\ ShrinkStart

FullNext ==
  \/ FullBaseline \/ FullPrimaryTier \/ FullSecondaryTier \/ Finalize
  \/ RenderRaises \/ CountEscapes \/ SinkRaises \/ SinkRaisesAfterBaseline
  \/ GenerateImposes \/ ImposeRead \/ ImposeSheet \/ ImposeWrite
  \/ FullShrinkBaseline \/ FullShrinkScale \/ ShrinkRenderRaises \/ ShrinkCountEscapes

SpecFull == FullInit /\ [][FullNext]_vars

\* A render has failed in this run of _auto_adjust_bulletin.
RenderFailed == \E k \in 1..Len(events) : events[k].kind = "render_failed"

\* After a failed render the run is over: the failure is the last event and
\* the imposer was never started.
C14_FailureIsLast ==
  RenderFailed =>
    /\ events[Len(events)].kind = "render_failed"
    /\ \A k \in 1..(Len(events) - 1) : events[k].kind # "render_failed"
    /\ pc = "raised"
    /\ ipc = "idle" /\ output_pdf = <<>> /\ reads = 0

\* C14: when the renderer raises in any attempt of Auto-Fit or Auto-Shrink
\* the controller is left at once with the exception: no later render or
\* page count is made, and generate_bulletin does not impose a booklet.
C14_RendererFailureStops ==
  /\ []C14_FailureIsLast
  /\ [][(pc = "raised" \/ spc = "raised") =>
          UNCHANGED <<events, seq_path, counted, sh_log, files, ipc, output_pdf, pc, spc>>]_vars
  /\ [][ /\ ((\E k \in 1..Len(events') : events'[k].kind = "render_failed") /\ ~RenderFailed) =>
              (pc' = "raised" /\ UNCHANGED <<seq_path, counted>>)
         /\ (spc' = "raised" /\ spc # "raised" /\ counted' = counted) =>
              UNCHANGED <<files, sh_log>> ]_vars

\* C14 witness: the render of tier T2 raised after the baseline and T1 had
\* been rendered; the run is over and no booklet was imposed.
C14_Witness ==
  /\ pc = "raised" /\ ipc = "idle"
  /\ Len(Renders) = 2
  /\ events[Len(events)].kind = "render_failed" /\ events[Len(events)].what = "T2"

\* C19: count_pages returns None for every kind of failure to read or parse
\* the file and lets no exception out.
C19_CountNeverRaises ==
  counted.file.kind \notin {"none", "ok"} => (~counted.raised /\ counted.value = None)


\* The shape of the two tables: six tiers, the first four at scale 1.0, the
\* last two scaled, the sixth farther from 1.0 than the fifth.
C20_Tables ==
  /\ Len(BULLETIN_TIGHTEN_PROFILES) = 6 /\ Len(BULLETIN_LOOSEN_PROFILES) = 6
  /\ \A k \in 1..4 :
       /\ BULLETIN_TIGHTEN_PROFILES[k].scale = DefaultScale
       /\ BULLETIN_LOOSEN_PROFILES[k].scale = DefaultScale
  /\ BULLETIN_TIGHTEN_PROFILES[6].scale < BULLETIN_TIGHTEN_PROFILES[5].scale
  /\ BULLETIN_TIGHTEN_PROFILES[5].scale < DefaultScale
  /\ BULLETIN_LOOSEN_PROFILES[6].scale > BULLETIN_LOOSEN_PROFILES[5].scale
  /\ BULLETIN_LOOSEN_PROFILES[5].scale > DefaultScale

\* C20: each ladder has exactly six tiers; tiers 1 to 4 are rendered at
\* scale 1.0 and only tiers 5 and 6 at another scale, below 1.0 when
\* tightening and above 1.0 when loosening, tier 6 farther from 1.0 than
\* tier 5.
C20_LadderShape ==
  /\ C20_Tables
  /\ \A k \in 1..Len(events) :
       IsTier(events[k]) =>
         \E t \in 1..6 :
           \/ /\ BULLETIN_TIGHTEN_PROFILES[t].name = events[k].what
              /\ events[k].scale = BULLETIN_TIGHTEN_PROFILES[t].scale
              /\ IF t <= 4 THEN events[k].scale = DefaultScale
                 ELSE events[k].scale < DefaultScale
           \/ /\ BULLETIN_LOOSEN_PROFILES[t].name = events[k].what
              /\ events[k].scale = BULLETIN_LOOSEN_PROFILES[t].scale
              /\ IF t <= 4 THEN events[k].scale = DefaultScale
                 ELSE events[k].scale > DefaultScale

\* C20 witness: a run that rendered all six tiers of one ladder, the fourth
\* at scale 1.0 and the fifth and sixth scaled.
C20_Witness ==
  \E a, b, c \in 1..Len(events) :
    /\ IsTier(events[a]) /\ events[a].what = "L4" /\ events[a].scale = DefaultScale
    /\ IsTier(events[b]) /\ events[b].what = "L5" /\ events[b].scale > DefaultScale
    /\ IsTier(events[c]) /\ events[c].what = "L6" /\ events[c].scale > events[b].scale


\* ------------------------------------------------ the text of the profiles
\* Variant: T4 replaces the earlier overrides and holds only its own.
Declarations_replacing(css) ==
  CASE css = "css-T1" ->
       { <<".spacer", "height", "4pt">>,
         <<".spacer-sm", "height", "2pt">>,
         <<".section-heading", "margin-top", "5pt">>,
         <<".ep-break", "height", "3pt">> }
    [] css = "css-T2" ->
       { <<".spacer", "height", "2pt">>,
         <<".spacer-sm", "height", "1pt">>,
         <<".section-heading", "margin-top", "3pt">>,
         <<".section-heading", "margin-bottom", "1pt">>,
         <<".flow-group", "break-inside", "auto">>,
         <<".ep-break", "height", "2pt">> }
    [] css = "css-T3" ->
       { <<".spacer", "height", "0pt">>,
         <<".spacer-sm", "height", "0pt">>,
         <<".section-heading", "margin-top", "2pt">>,
         <<".section-heading", "margin-bottom", "0pt">>,
         <<".flow-group", "break-inside", "auto">>,
         <<".ep-break", "height", "0pt">>,
         <<".cover", "min-height", "7in">> }
    [] css = "css-T4" ->
       { <<"body", "font-size", "10.5pt">>,
         <<"body", "line-height", "1.3">>,
         <<".reading-intro", "font-size", "8.5pt">>,
         <<".reading-text", "line-height", "1.3">>,
         <<".psalm-verse", "line-height", "1.25">> }
    [] css = "css-T5" ->
       { <<".spacer", "height", "0pt">>,
         <<".spacer-sm", "height", "0pt">>,
         <<".section-heading", "margin-top", "1pt">>,
         <<".section-heading", "margin-bottom", "0pt">>,
         <<".flow-group", "break-inside", "auto">>,
         <<".ep-break", "height", "0pt">>,
         <<".cover", "min-height", "6.5in">>,
         <<"body", "font-size", "10.5pt">>,
         <<"body", "line-height", "1.25">>,
         <<"body", "orphans", "2">>,
         <<"body", "widows", "2">>,
         <<".reading-intro", "font-size", "8pt">>,
         <<".reading-text", "line-height", "1.25">>,
         <<".psalm-verse", "line-height", "1.2">>,
         <<".two-col", "column-gap", "0.2in">> }
    [] css = "css-T6" ->
       { <<".spacer", "height", "0pt">>,
         <<".spacer-sm", "height", "0pt">>,
         <<".section-heading", "margin-top", "1pt">>,
         <<".section-heading", "margin-bottom", "0pt">>,
         <<".flow-group", "break-inside", "auto">>,
         <<".ep-break", "height", "0pt">>,
         <<".cover", "min-height", "6in">>,
         <<"body", "font-size", "10pt">>,
         <<"body", "line-height", "1.2">>,
         <<"body", "orphans", "2">>,
         <<"body", "widows", "2">>,
         <<".reading-intro", "font-size", "8pt">>,
         <<".reading-text", "line-height", "1.2">>,
         <<".psalm-verse", "line-height", "1.15">>,
         <<".two-col", "column-gap", "0.15in">>,
         <<".notation-image img", "max-height", "6.5in">>,
         <<".ep-text", "font-size", "9.5pt">> }
    [] css = "css-L1" ->
       { <<".spacer", "height", "12pt">>,
         <<".spacer-sm", "height", "6pt">>,
         <<".section-heading", "margin-top", "12pt">>,
         <<".ep-break", "height", "10pt">> }
    [] css = "css-L2" ->
       { <<".spacer", "height", "18pt">>,
         <<".spacer-sm", "height", "10pt">>,
         <<".section-heading", "margin-top", "16pt">>,
         <<".ep-break", "height", "14pt">> }
    [] css = "css-L3" ->
       { <<".spacer", "height", "24pt">>,
         <<".spacer-sm", "height", "14pt">>,
         <<".section-heading", "margin-top", "20pt">>,
         <<".ep-break", "height", "18pt">>,
         <<".cover", "min-height", "8in">> }
    [] css = "css-L4" ->
       { <<".spacer", "height", "24pt">>,
         <<".spacer-sm", "height", "14pt">>,
         <<".section-heading", "margin-top", "20pt">>,
         <<".ep-break", "height", "18pt">>,
         <<".cover", "min-height", "8in">>,
         <<"body", "font-size", "11.5pt">>,
         <<"body", "line-height", "1.4">>,
         <<".reading-text", "line-height", "1.4">>,
         <<".psalm-verse", "line-height", "1.35">> }
    [] css = "css-L5" ->
       { <<".spacer", "height", "28pt">>,
         <<".spacer-sm", "height", "16pt">>,
         <<".section-heading", "margin-top", "22pt">>,
         <<".ep-break", "height", "20pt">>,
         <<".cover", "min-height", "8in">>,
         <<"body", "font-size", "11.5pt">>,
         <<"body", "line-height", "1.45">>,
         <<"body", "orphans", "4">>,
         <<"body", "widows", "4">>,
         <<".reading-text", "line-height", "1.45">>,
         <<".psalm-verse", "line-height", "1.4">>,
         <<".two-col", "column-gap", "0.3in">> }
    [] css = "css-L6" ->
       { <<".spacer", "height", "32pt">>,
         <<".spacer-sm", "height", "18pt">>,
         <<".section-heading", "margin-top", "24pt">>,
         <<".ep-break", "height", "22pt">>,
         <<".cover", "min-height", "8.2in">>,
         <<"body", "font-size", "12pt">>,
         <<"body", "line-height", "1.5">>,
         <<"body", "orphans", "4">>,
         <<"body", "widows", "4">>,
         <<".reading-text", "line-height", "1.5">>,
         <<".psalm-verse", "line-height", "1.45">>,
         <<".two-col", "column-gap", "0.35in">> }
    [] OTHER -> {}

\* The declarations <<selector, property, value>> written in the css text
\* of a profile.
Declarations(css) ==
  CASE css = "css-T1" ->
       { <<".spacer", "height", "4pt">>,
         <<".spacer-sm", "height", "2pt">>,
         <<".section-heading", "margin-top", "5pt">>,
         <<".ep-break", "height", "3pt">> }
    [] css = "css-T2" ->
       { <<".spacer", "height", "2pt">>,
         <<".spacer-sm", "height", "1pt">>,
         <<".section-heading", "margin-top", "3pt">>,
         <<".section-heading", "margin-bottom", "1pt">>,
         <<".flow-group", "break-inside", "auto">>,
         <<".ep-break", "height", "2pt">> }
    [] css = "css-T3" ->
       { <<".spacer", "height", "0pt">>,
         <<".spacer-sm", "height", "0pt">>,
         <<".section-heading", "margin-top", "2pt">>,
         <<".section-heading", "margin-bottom", "0pt">>,
         <<".flow-group", "break-inside", "auto">>,
         <<".ep-break", "height", "0pt">>,
         <<".cover", "min-height", "7in">> }
    [] css = "css-T4" ->
       { <<".spacer", "height", "0pt">>,
         <<".spacer-sm", "height", "0pt">>,
         <<".section-heading", "margin-top", "2pt">>,
         <<".section-heading", "margin-bottom", "0pt">>,
         <<".flow-group", "break-inside", "auto">>,
         <<".ep-break", "height", "0pt">>,
         <<".cover", "min-height", "7in">>,
         <<"body", "font-size", "10.5pt">>,
         <<"body", "line-height", "1.3">>,
         <<".reading-intro", "font-size", "8.5pt">>,
         <<".reading-text", "line-height", "1.3">>,
         <<".psalm-verse", "line-height", "1.25">> }
    [] css = "css-T5" ->
       { <<".spacer", "height", "0pt">>,
         <<".spacer-sm", "height", "0pt">>,
         <<".section-heading", "margin-top", "1pt">>,
         <<".section-heading", "margin-bottom", "0pt">>,
         <<".flow-group", "break-inside", "auto">>,
         <<".ep-break", "height", "0pt">>,
         <<".cover", "min-height", "6.5in">>,
         <<"body", "font-size", "10.5pt">>,
         <<"body", "line-height", "1.25">>,
         <<"body", "orphans", "2">>,
         <<"body", "widows", "2">>,
         <<".reading-intro", "font-size", "8pt">>,
         <<".reading-text", "line-height", "1.25">>,
         <<".psalm-verse", "line-height", "1.2">>,
         <<".two-col", "column-gap", "0.2in">> }
    [] css = "css-T6" ->
       { <<".spacer", "height", "0pt">>,
         <<".spacer-sm", "height", "0pt">>,
         <<".section-heading", "margin-top", "1pt">>,
         <<".section-heading", "margin-bottom", "0pt">>,
         <<".flow-group", "break-inside", "auto">>,
         <<".ep-break", "height", "0pt">>,
         <<".cover", "min-height", "6in">>,
         <<"body", "font-size", "10pt">>,
         <<"body", "line-height", "1.2">>,
         <<"body", "orphans", "2">>,
         <<"body", "widows", "2">>,
         <<".reading-intro", "font-size", "8pt">>,
         <<".reading-text", "line-height", "1.2">>,
         <<".psalm-verse", "line-height", "1.15">>,
         <<".two-col", "column-gap", "0.15in">>,
         <<".notation-image img", "max-height", "6.5in">>,
         <<".ep-text", "font-size", "9.5pt">> }
    [] css = "css-L1" ->
       { <<".spacer", "height", "12pt">>,
         <<".spacer-sm", "height", "6pt">>,
         <<".section-heading", "margin-top", "12pt">>,
         <<".ep-break", "height", "10pt">> }
    [] css = "css-L2" ->
       { <<".spacer", "height", "18pt">>,
         <<".spacer-sm", "height", "10pt">>,
         <<".section-heading", "margin-top", "16pt">>,
         <<".ep-break", "height", "14pt">> }
    [] css = "css-L3" ->
       { <<".spacer", "height", "24pt">>,
         <<".spacer-sm", "height", "14pt">>,
         <<".section-heading", "margin-top", "20pt">>,
         <<".ep-break", "height", "18pt">>,
         <<".cover", "min-height", "8in">> }
    [] css = "css-L4" ->
       { <<".spacer", "height", "24pt">>,
         <<".spacer-sm", "height", "14pt">>,
         <<".section-heading", "margin-top", "20pt">>,
         <<".ep-break", "height", "18pt">>,
         <<".cover", "min-height", "8in">>,
         <<"body", "font-size", "11.5pt">>,
         <<"body", "line-height", "1.4">>,
         <<".reading-text", "line-height", "1.4">>,
         <<".psalm-verse", "line-height", "1.35">> }
    [] css = "css-L5" ->
       { <<".spacer", "height", "28pt">>,
         <<".spacer-sm", "height", "16pt">>,
         <<".section-heading", "margin-top", "22pt">>,
         <<".ep-break", "height", "20pt">>,
         <<".cover", "min-height", "8in">>,
         <<"body", "font-size", "11.5pt">>,
         <<"body", "line-height", "1.45">>,
         <<"body", "orphans", "4">>,
         <<"body", "widows", "4">>,
         <<".reading-text", "line-height", "1.45">>,
         <<".psalm-verse", "line-height", "1.4">>,
         <<".two-col", "column-gap", "0.3in">> }
    [] css = "css-L6" ->
       { <<".spacer", "height", "32pt">>,
         <<".spacer-sm", "height", "18pt">>,
         <<".section-heading", "margin-top", "24pt">>,
         <<".ep-break", "height", "22pt">>,
         <<".cover", "min-height", "8.2in">>,
         <<"body", "font-size", "12pt">>,
         <<"body", "line-height", "1.5">>,
         <<"body", "orphans", "4">>,
         <<"body", "widows", "4">>,
         <<".reading-text", "line-height", "1.5">>,
         <<".psalm-verse", "line-height", "1.45">>,
         <<".two-col", "column-gap", "0.35in">> }
    [] OTHER -> {}

\* What a css text adjusts: the <<selector, property>> pairs it overrides.
Adjustments(css) == {<<dcl[1], dcl[2]>> : dcl \in Declarations(css)}

\* Tier k of a ladder takes over every adjustment of tier k-1 and
\* overrides something tier k-1 did not write.
Cumulative(ladder, k) ==
  /\ Adjustments(ladder[k - 1].css) \subseteq Adjustments(ladder[k].css)
  /\ Declarations(ladder[k].css) \ Declarations(ladder[k - 1].css) # {}

SinkFailed == \E k \in 1..Len(events) : events[k].kind = "report_failed"

\* C22: progress reporting is advisory: whatever the sink does, failing
\* included, the run makes the renders and reaches the result of a run
\* without a sink; a run without a sink is never ended by a report, so a
\* run with a sink is never ended by one either.
C22_ProgressAdvisory == SinkFailed => pc # "raised"


\* ========================================== BulletinAPI.generate_all
\* Largest creed page number generate_bulletin reports.
MaxCreed == 2

\* The five `if "<doc>" in selected:` blocks, in the order they are written.
DocOrder == <<"bulletin", "prayers", "scripture", "large_print", "leader_guide">>
Documents == {DocOrder[k] : k \in 1..Len(DocOrder)}

\* The position behind the block at position k.
AfterBlock(k) == IF k = Len(DocOrder) THEN "return" ELSE DocOrder[k + 1]

\* `set(form_data.get("selected_docs") or [all five])`
Selected(docs) == IF docs = {} THEN Documents ELSE docs

\* What a generate_* call does: it returns a path (generate_bulletin a path
\* and the creed page, None when no creed page was found) or it raises.
GenOutcomes ==
  {[kind |-> "ok", creed |-> c, error |-> "none"] : c \in (1..MaxCreed) \cup {None}}
    \cup {[kind |-> "raise", creed |-> None, error |-> e] : e \in {"RuntimeError", "AuthError"}}

\* Variant: success means that some document was written.
Success_some_result(res, errs) == DOMAIN res # {}

\* `"success": len(errors) == 0`
Success(res, errs) == DOMAIN errs = {}

\* The two validation returns, the setup, and `selected`.
GenStart ==
  /\ gpc = "start"
  /\ IF ~form.has_day \/ ~form.has_date
     THEN /\ response' = [kind |-> "validation", success |-> FALSE,
                          results |-> <<>>, errors |-> <<>>]
          /\ gpc' = "returned"
          /\ UNCHANGED selected
     ELSE \/ /\ selected' = Selected(form.selected_docs)
             /\ gpc' = DocOrder[1]
             /\ UNCHANGED response
          \/ \* mkdir, _build_service_config, ... raise: the outer except
             /\ response' = [kind |-> "error", success |-> FALSE,
                             results |-> <<>>, errors |-> <<>>]
             /\ gpc' = "returned"
             /\ UNCHANGED selected
  /\ UNCHANGED <<form, results, errors, creed_page, calls>>
  /\ UNCHANGED <<autofitVars, imposeVars, shrinkVars, counted, clientVars>>

\* Variant: the prayers are always generated without a creed page.
CreedArg_none(doc, cp) == IF doc = "prayers" THEN None ELSE Unset

\* `creed_page_num=creed_page`, an argument of generate_pulpit_prayers only.
CreedArg(doc, cp) == IF doc = "prayers" THEN cp ELSE Unset

\* The block of the document at position k of DocOrder.
GenDoc(k) ==
  LET doc == DocOrder[k]
  IN /\ gpc' = AfterBlock(k)
     /\ IF doc \notin selected
        THEN UNCHANGED <<results, errors, creed_page, calls>>
        ELSE \E o \in GenOutcomes :
               /\ (o.creed # None) => doc = "bulletin"
               /\ calls' = Append(calls, [doc |-> doc,
                                          creed_page_num |-> CreedArg(doc, creed_page),
                                          outcome |-> o])
               /\ IF o.kind = "ok"
                  THEN /\ results' = results @@ (doc :> "path")
                       /\ creed_page' = IF doc = "bulletin" THEN o.creed ELSE creed_page
                       /\ UNCHANGED errors
                  ELSE /\ IsInstance(o.error, "Exception")
                       /\ errors' = errors @@ (doc :> o.error)
                       /\ UNCHANGED <<results, creed_page>>
     /\ UNCHANGED <<form, selected, response>>
     /\ UNCHANGED <<autofitVars, imposeVars, shrinkVars, counted, clientVars>>

GenBulletin == gpc = "bulletin" /\ GenDoc(1)
GenPrayers == gpc = "prayers" /\ GenDoc(2)
GenScripture == gpc = "scripture" /\ GenDoc(3)
GenLargePrint == gpc = "large_print" /\ GenDoc(4)
GenLeaderGuide == gpc = "leader_guide" /\ GenDoc(5)

\* The closing `return {...}`.
GenReturn ==
  /\ gpc = "return"
  /\ response' = [kind |-> "done", success |-> Success(results, errors),
                  results |-> results, errors |-> errors]
  /\ gpc' = "returned"
  /\ UNCHANGED <<form, selected, results, errors, creed_page, calls>>
  /\ UNCHANGED <<autofitVars, imposeVars, shrinkVars, counted, clientVars>>

GenInit ==
  /\ AutofitIdle /\ ImposeIdle /\ ShrinkIdle /\ ClientIdle
  /\ counted = NoCount
  /\ gpc = "start"
  /\ form \in [has_day : BOOLEAN, has_date : BOOLEAN, selected_docs : SUBSET Documents]
  /\ selected = {}
  /\ results = <<>> /\ errors = <<>> /\ creed_page = None
  /\ calls = <<>> /\ response = NoResponse

GenNext ==
  \/ GenStart \/ GenBulletin \/ GenPrayers \/ GenScripture
  \/ GenLargePrint \/ GenLeaderGuide \/ GenReturn

SpecGenerate == GenInit /\ [][GenNext]_vars


\* generate_all came to its closing return.
GenDone == response.kind = "done"
CalledDocs == {calls[k].doc : k \in 1..Len(calls)}

\* C23: a failure while generating one document is recorded under that
\* document's key in errors and keeps no later selected document from being
\* attempted; at return every selected document is in exactly one of
\* results and errors, and success is true exactly when errors is empty.
C23_FailuresAreIsolated ==
  /\ \A k \in 1..Len(calls) :
       /\ calls[k].outcome.kind = "raise" =>
            /\ calls[k].doc \in DOMAIN errors
            /\ errors[calls[k].doc] = calls[k].outcome.error
            /\ calls[k].doc \notin DOMAIN results
       /\ calls[k].outcome.kind = "ok" =>
            /\ calls[k].doc \in DOMAIN results
            /\ calls[k].doc \notin DOMAIN errors
  /\ GenDone =>
       /\ CalledDocs = selected
       /\ Len(calls) = Cardinality(selected)
       /\ DOMAIN response.results \cup DOMAIN response.errors = selected
       /\ DOMAIN response.results \cap DOMAIN response.errors = {}
       /\ response.success <=> (DOMAIN response.errors = {})

\* C23 witness: the bulletin failed, the four later documents were still
\* attempted, one more of them failed, and the run returned success = false.
C23_Witness ==
  /\ GenDone
  /\ selected = Documents
  /\ DOMAIN response.errors = {"bulletin", "large_print"}
  /\ DOMAIN response.results = {"prayers", "scripture", "leader_guide"}
  /\ ~response.success

\* The documents of a set in the order bulletin, prayers, scripture,
\* large_print, leader_guide.
InFixedOrder(docs) ==
  SelectSeq(<<"bulletin", "prayers", "scripture", "large_print", "leader_guide">>,
            LAMBDA x : x \in docs)

\* C29: generate_all attempts the selected documents in the order bulletin,
\* prayers, scripture, large_print, leader_guide, and the creed page passed
\* to the prayers is the one this run's bulletin generation returned, or
\* None when the bulletin was not selected or failed.
C29_OrderAndCreedPage ==
  /\ [k \in 1..Len(calls) |-> calls[k].doc] = InFixedOrder(CalledDocs)
  /\ GenDone => [k \in 1..Len(calls) |-> calls[k].doc] = InFixedOrder(selected)
  /\ \A k \in 1..Len(calls) :
       calls[k].doc = "prayers" =>
         IF \E j \in 1..(k - 1) : calls[j].doc = "bulletin" /\ calls[j].outcome.kind = "ok"
         THEN \E j \in 1..(k - 1) :
                /\ calls[j].doc = "bulletin"
                /\ calls[k].creed_page_num = calls[j].outcome.creed
         ELSE calls[k].creed_page_num = None

\* C29 witness: the bulletin returned creed page 2 and the prayers were
\* then generated with creed page 2.
C29_Witness ==
  /\ Len(calls) >= 2
  /\ calls[1].doc = "bulletin" /\ calls[1].outcome.kind = "ok" /\ calls[1].outcome.creed = 2
  /\ calls[2].doc = "prayers" /\ calls[2].creed_page_num = 2


\* ============================================ SundaysClient._request
\* What self.client.request(...) followed by resp.raise_for_status() meets:
\* a response with a status code, or an exception of the transport.
Responses ==
  {[kind |-> "status", status |-> c, error |-> "none"] :
      c \in {200, 204, 400, 401, 403, 404, 429, 500, 502, 503}}
    \cup {[kind |-> "raise", status |-> 0, error |-> e] :
            e \in {"httpx.TimeoutException", "httpx.ConnectError"}}

\* The exception the try body ends with: raise_for_status raises
\* HTTPStatusError for a 4xx or 5xx response.
Raised(r) ==
  IF r.kind = "raise" THEN r.error
  ELSE IF r.status >= 400 THEN "httpx.HTTPStatusError"
  ELSE "none"

\* Variant: only 401 is taken for an authentication failure.
IsAuthFailure_401_only(status) == status = 401

\* `if status in (401, 403):`
IsAuthFailure(status) == status \in {401, 403}

\* One pass through the body of `for attempt in range(2):`.
RequestAttempt ==
  /\ rpc = "try"
  /\ \E r \in Responses :
       LET e == Raised(r)
           raise(cls) == rpc' = "raised" /\ exc' = cls /\ UNCHANGED attempt
           continue == rpc' = "try" /\ attempt' = attempt + 1 /\ UNCHANGED exc
       IN /\ sent' = Append(sent, r)
          /\ IF e = "none"
             THEN rpc' = "returned" /\ UNCHANGED <<attempt, _logged_in, exc>>
             ELSE IF IsInstance(e, "httpx.HTTPStatusError")
             THEN IF IsAuthFailure(r.status)
                  THEN _logged_in' = FALSE /\ raise("AuthError")
                  ELSE /\ UNCHANGED _logged_in
                       /\ IF r.status >= 500 /\ attempt = 0
                          THEN continue
                          ELSE raise("BulletinError")
             ELSE IF IsInstance(e, "httpx.TimeoutException")
             THEN /\ UNCHANGED _logged_in
                  /\ IF attempt = 0 THEN continue ELSE raise("NetworkError")
             ELSE IF IsInstance(e, "httpx.RequestError")
             THEN /\ UNCHANGED _logged_in
                  /\ IF attempt = 0 THEN continue ELSE raise("NetworkError")
             ELSE /\ UNCHANGED _logged_in
                  /\ raise(e)
  /\ UNCHANGED <<autofitVars, imposeVars, shrinkVars, counted, apiVars>>

RequestInit ==
  /\ AutofitIdle /\ ImposeIdle /\ ShrinkIdle /\ ApiIdle
  /\ counted = NoCount
  /\ rpc = "try"
  /\ attempt = 0
  /\ _logged_in \in BOOLEAN
  /\ sent = <<>>
  /\ exc = "none"

RequestNext == RequestAttempt

SpecRequest == RequestInit /\ [][RequestNext]_vars

\* A first-attempt outcome the claim lets _request retry after.
Transient(r) ==
  \/ r.kind = "status" /\ r.status >= 500
  \/ r.kind = "raise" /\ r.error \in {"httpx.TimeoutException", "httpx.ConnectError"}
RequestOver == rpc \in {"returned", "raised"}
LastSent == sent[Len(sent)]

\* C30: _request sends at most twice; it retries once, and only after a
\* first-attempt 5xx, timeout or connection error; a 401/403 is never
\* retried, marks the session logged out and raises AuthError; any other
\* 4xx and any failure of the second attempt raise without another retry.
C30_RetryOnce ==
  /\ Len(sent) <= 2
  /\ Len(sent) = 2 => Transient(sent[1])
  /\ (Len(sent) = 1 /\ Transient(sent[1])) => ~RequestOver
  /\ \A k \in 1..Len(sent) :
       (sent[k].kind = "status" /\ sent[k].status \in {401, 403}) =>
         /\ k = Len(sent)
         /\ rpc = "raised" /\ exc = "AuthError" /\ ~_logged_in
  /\ \A k \in 1..Len(sent) :
       (sent[k].kind = "status" /\ sent[k].status \in 400..499
          /\ sent[k].status \notin {401, 403}) =>
         k = Len(sent) /\ rpc = "raised" /\ exc = "BulletinError"
  /\ Len(sent) = 2 =>
       /\ RequestOver
       /\ Raised(sent[2]) # "none" => rpc = "raised"
  /\ rpc = "returned" <=> (sent # <<>> /\ Raised(LastSent) = "none")

\* C30 witness: the first attempt met a 503 and was retried, the second met
\* a 403: two requests, AuthError, session logged out.
C30_Witness ==
  /\ Len(sent) = 2
  /\ sent[1].status = 503 /\ sent[2].status = 403
  /\ rpc = "raised" /\ exc = "AuthError" /\ ~_logged_in


\* ================================ Auto-Fit with every count measurable
\* The runs of _auto_adjust_bulletin in which count_pages always returns a
\* page count.
MeasuredBaseline == \E m \in PageCounts : BaselineWith(m) /\ UNCHANGED counted
MeasuredPrimaryTier == \E m \in PageCounts : PrimaryTierWith(m) /\ UNCHANGED counted
MeasuredSecondaryTier == \E m \in PageCounts : SecondaryTierWith(m) /\ UNCHANGED counted
MeasuredNext ==
  MeasuredBaseline \/ MeasuredPrimaryTier \/ MeasuredSecondaryTier \/ Finalize
SpecMeasured == Init /\ [][MeasuredNext]_vars

\* The blank pages the document at the destination needs: it is the latest
\* render, whose count is `pages` for the baseline and `n` for a tier; the
\* final render repeats the best attempt and has its count.
DestBlanks ==
  LET last == Renders[Len(Renders)].what
  IN IF last = "baseline" THEN _booklet_blanks(pages)
     ELSE IF last = "final" THEN best_blanks
     ELSE _booklet_blanks(n)

\* C24: Auto-Fit never makes the layout worse: with every page count
\* measurable, the document at the destination when Auto-Fit returns needs
\* no more blank pages than the baseline render needed.
C24_NeverWorse ==
  pc = "done" => DestBlanks <= _booklet_blanks(pages)


\* The reading-order indices of all slots of the booklet: left and right of
\* every side, in output order.
SlotIndices(out) == [k \in 1..(2 * Len(out)) |->
                       IF k % 2 = 1 THEN out[(k + 1) \div 2].left ELSE out[k \div 2].right]

\* C25: for every N >= 0 impose_booklet emits padded/2 sides, a front then
\* a back for each of the padded/4 sheets, and over all their left and
\* right slots each index 0 .. padded-1 appears exactly once: no input page
\* is dropped or placed twice.
C25_SlotsArePermutation ==
  ipc = "done" =>
    LET idxs == SlotIndices(output_pdf)
    IN /\ padded = Padded(in_pages)
       /\ 2 * Len(output_pdf) = padded
       /\ \A s \in 0..((padded \div 4) - 1) :
            /\ output_pdf[2 * s + 1].right = 2 * s
            /\ output_pdf[2 * s + 2].left = 2 * s + 1
       /\ \A x \in 0..(padded - 1) :
            Cardinality({k \in 1..Len(idxs) : idxs[k] = x}) = 1
       /\ \A k \in 1..Len(idxs) : idxs[k] \in 0..(padded - 1)
       /\ \A x \in 0..(in_pages - 1) :
            Cardinality({k \in 1..Len(output_pdf) :
                           \/ output_pdf[k].left = x /\ output_pdf[k].left_merged
                           \/ output_pdf[k].right = x /\ output_pdf[k].right_merged}) = 1

\* C25 witness: a 7-page input imposed on 4 sides whose 8 slots hold the
\* indices 0..7.
C25_Witness ==
  /\ ipc = "done"
  /\ in_pages = 7 /\ Len(output_pdf) = 4
  /\ {SlotIndices(output_pdf)[k] : k \in 1..8} = 0..7


\* Blank pages of a page count, written out.
BlanksOf(k) == (4 - (k % 4)) % 4

\* The stored best is the baseline exactly when nothing was adopted; an
\* adopted best is a tier's candidate with fewer blanks than the baseline.
C26_BestIsConsistent ==
  Searching =>
    /\ ~adjusted <=> /\ best_html = html_string
                     /\ best_scale = DefaultScale
                     /\ best_blanks = BlanksOf(baseline_pages)
    /\ adjusted =>
         /\ best_blanks < BlanksOf(baseline_pages)
         /\ \E k \in 1..Len(events) :
              /\ IsTier(events[k])
              /\ events[k].html = best_html /\ events[k].scale = best_scale
              /\ best_html = _inject_css(html_string, ProfileNamed(events[k].what).css)
              /\ best_scale = ProfileNamed(events[k].what).scale

\* C26: the best-result bookkeeping is consistent throughout a run:
\* adjusted is false exactly when (best_html, best_scale) is the unmodified
\* baseline at scale 1.0 with the baseline's blank count; when it is true,
\* best_blanks is strictly below the baseline's and is the blank count
\* measured for the very attempt whose markup and scale are stored.
C26_BookkeepingConsistent ==
  /\ []C26_BestIsConsistent
  /\ [][Searching =>
          LET r == Renders'
              last == r[Len(r)]
          IN IF <<best_html', best_scale', best_blanks', adjusted'>>
                  # <<best_html, best_scale, best_blanks, adjusted>>
             THEN /\ adjusted'
                  /\ IsTier(last) /\ Len(r) = Len(Renders) + 1
                  /\ best_html' = last.html /\ best_scale' = last.scale
                  /\ n' \in PageCounts
                  /\ best_blanks' = BlanksOf(n')
             ELSE TRUE]_vars

\* C26 witness: a run whose stored best is tier T2, adopted with one blank
\* page against the baseline's three, while a later tier has since been tried.
C26_Witness ==
  /\ adjusted /\ pc \in {"primary", "secondary"}
  /\ best_html = _inject_css(html_string, "css-T2") /\ best_scale = DefaultScale
  /\ best_blanks = 1 /\ BlanksOf(baseline_pages) = 3
  /\ Renders[Len(Renders)].what # "T2"


\* Positions of the renders in the log.
RenderPositions == {k \in 1..Len(events) : IsRender(events[k])}
\* Exactly one report lies between the render at position k and the render
\* before it (or the start of the run).
OneReportBefore(k) ==
  /\ k >= 2 /\ events[k - 1].kind = "report"
  /\ k = 2 \/ IsRender(events[k - 2])
\* Exactly two reports lie between the render at k and the render before it.
TwoReportsBefore(k) ==
  /\ k >= 4 /\ events[k - 1].kind = "report" /\ events[k - 2].kind = "report"
  /\ IsRender(events[k - 3])

\* The statement as made: one message, and only one, between two renders.
C27_ExactlyOneMessage ==
  has_sink => \A k \in RenderPositions : OneReportBefore(k)

\* C27: with a progress sink every render of Auto-Fit directly follows a
\* progress message of its own; for a tier attempt that message names the
\* tier's profile and the direction being searched (the opposite one in the
\* secondary search).  It is the only message since the previous render,
\* but for the first tier attempt, which also follows the baseline summary.
C27_MessageBeforeRender ==
  has_sink =>
    \A k \in RenderPositions :
      /\ k > 1
      /\ events[k - 1].kind = "report"
      /\ IsTier(events[k]) =>
           /\ events[k - 1].what = events[k].what
           /\ events[k - 1].dir = IF InLadder(BULLETIN_TIGHTEN_PROFILES, events[k].what)
                                  THEN "tighten" ELSE "loosen"
           /\ events[k - 1].dir = IF InLadder(primary(direction), events[k].what)
                                  THEN direction
                                  ELSE IF direction = "tighten" THEN "loosen" ELSE "tighten"
      /\ IF k >= 4 /\ events[k - 3].what = "baseline" /\ IsRender(events[k - 3])
         THEN TwoReportsBefore(k)
         ELSE OneReportBefore(k)

\* C27 witness: a run with a sink that has rendered a tier of the secondary
\* ladder after its one message, and the first tier after two.
C27_Witness ==
  /\ has_sink /\ direction = "tighten"
  /\ \E k \in RenderPositions :
       /\ events[k].what = "L2" /\ events[k - 1].dir = "loosen"
       /\ OneReportBefore(k)
  /\ \E k \in RenderPositions : events[k].what = "T1" /\ TwoReportsBefore(k)


\* A run that returned on an unmeasurable count made one render or all five.
C28_ReturnedUnmeasured ==
  (spc = "done" /\ sh_pages = None) => sh_log \in {<<100>>, <<100, 95, 90, 85, 80>>}

\* C28: in render_with_shrink an unmeasurable count at the scale-1.0
\* baseline ends the run at once with that one render as result; at a ladder
\* scale it counts as not meeting the ceiling: the next smaller scale is
\* tried, and after the 0.80 attempt that attempt is returned.
C28_UnmeasurableByStage ==
  /\ []C28_ReturnedUnmeasured
  /\ [][ /\ (spc = "start" /\ sh_pages' = None) =>
              /\ spc' = "done"
              /\ sh_log' = <<100>>
              /\ result' = output_path'
              /\ files' = {[path |-> result', html |-> sh_html, scale |-> 100]}
         /\ (spc = "loop" /\ sh_pages' = None) =>
              IF sh_log'[Len(sh_log')] = 80
              THEN /\ spc' = "done"
                   /\ result' = output_path
                   /\ files' = {[path |-> result', html |-> sh_html, scale |-> 80]}
              ELSE /\ spc' = "loop"
                   /\ AUTO_SHRINK_SCALES[sh_idx'] = sh_log'[Len(sh_log')] - 5 ]_vars

\* C28 witness: the baseline was over the ceiling, the 0.80 attempt could
\* not be measured, and the run returned with it after five renders.
C28_Witness ==
  /\ spc = "done" /\ sh_pages = None
  /\ sh_log = <<100, 95, 90, 85, 80>>
  /\ files = {[path |-> result, html |-> sh_html, scale |-> 80]}

====
